---- MODULE Spec2Model ----
(***************************************************************************)
(* A model of darwin-py's HTTP mediation layer (darwin/client.py) and of   *)
(* release parsing (darwin/dataset/release.py).                            *)
(*                                                                         *)
(* The library is synchronous: every public operation is one atomic step.  *)
(* A step draws the arguments of the call and the server's response from   *)
(* small sets, and records the call, the request that went out, the        *)
(* response, the error handlers that ran and how the call ended (a         *)
(* returned value or a raised exception).                                  *)
(*                                                                         *)
(* Python values: an optional string is the string or None; a JSON         *)
(* document is a record with one field named after its type ("null",       *)
(* "num", "str", "list", "obj"; an object is a function from its keys);    *)
(* the text of a URL is a sequence of one-character strings, so that       *)
(* joining is computed.                                                    *)
(* print() calls are not modelled (no state), but the expressions they     *)
(* evaluate are, since those can raise.                                    *)
(***************************************************************************)
EXTENDS Integers, Sequences, FiniteSets, TLC

VARIABLES client, call, request, response, invoked, outcome

vars == <<client, call, request, response, invoked, outcome>>

\* ------------------------------------------------------------------ bounds
\* longest list of error handlers passed to one post call
MaxHandlers == 2
\* longest dataset listing the server answers with
MaxListing == 2

\* ------------------------------------------------------- Python primitives
None == "None"

Truthy(s) == s # None /\ s # ""

\* Python `a or b` on optional strings
Or(a, b) == IF Truthy(a) THEN a ELSE b

Ok(v) == [ok |-> TRUE, val |-> v]
Err(e) == [ok |-> FALSE, err |-> e]

Return(v) == [kind |-> "return", value |-> v]
Raise(e, a) == [kind |-> "raise", error |-> e, arg |-> a]
NoArg == [none |-> TRUE]

Returned(o) == o.kind = "return"
Raised(o, e) == o.kind = "raise" /\ o.error = e

\* ------------------------------------------------------------ JSON values
JNull == [null |-> TRUE]
JNum(n) == [num |-> n]
JStr(s) == [str |-> s]
JList(s) == [list |-> s]
JObj(f) == [obj |-> f]
JBool(b) == [bool |-> b]
EmptyObj == JObj(<<>>)

IsNull(v) == "null" \in DOMAIN v
IsStr(v) == "str" \in DOMAIN v
IsList(v) == "list" \in DOMAIN v
IsObj(v) == "obj" \in DOMAIN v

\* Python v[k] for a string key k
GetItem(v, k) ==
    IF IsObj(v)
    THEN IF k \in DOMAIN v.obj THEN Ok(v.obj[k]) ELSE Err("KeyError")
    ELSE Err("TypeError")

\* Python v[k1][k2]
GetItem2(v, k1, k2) ==
    LET a == GetItem(v, k1) IN IF a.ok THEN GetItem(a.val, k2) ELSE a

RECURSIVE SetToSeq(_)
SetToSeq(S) == IF S = {} THEN <<>>
               ELSE LET x == CHOOSE y \in S : TRUE IN <<x>> \o SetToSeq(S \ {x})

\* Python `for x in v`: the items, or the TypeError of a value that is not
\* iterable.  A dict yields its keys (every key is a string, so the order of
\* the keys does not change what the loops of the client do with them).
Iterate(v) ==
    CASE IsList(v) -> Ok(v.list)
      [] IsObj(v) -> Ok([i \in 1..Cardinality(DOMAIN v.obj) |->
                            JStr(SetToSeq(DOMAIN v.obj)[i])])
      [] IsStr(v) -> Ok(IF v.str = "" THEN <<>> ELSE <<JStr(v.str)>>)
      [] OTHER -> Err("TypeError")

\* ------------------------------------------------------------- URL strings
Slash == "/"

RECURSIVE LStrip(_)
LStrip(s) == IF s # <<>> /\ Head(s) = Slash THEN LStrip(Tail(s)) ELSE s

RECURSIVE RStrip(_)
RStrip(s) == IF s # <<>> /\ s[Len(s)] = Slash
             THEN RStrip(SubSeq(s, 1, Len(s) - 1)) ELSE s

\* str.strip("/")
Strip(s) == RStrip(LStrip(s))

\* darwin.utils.urljoin: "/".join(part.strip("/") for part in parts)
RECURSIVE urljoin(_)
urljoin(parts) ==
    IF parts = <<>> THEN <<>>
    ELSE IF Len(parts) = 1 THEN Strip(parts[1])
    ELSE Strip(parts[1]) \o <<Slash>> \o urljoin(Tail(parts))

DefaultBaseUrl == <<"h","t","t","p","s",":","/","/","d","a","r","w","i","n",
                    ".","v","7","l","a","b","s",".","c","o","m">>
\* a value of the DARWIN_BASE_URL environment variable
EnvBaseUrl == <<"h","t","t","p",":","/","/","x","/">>
NoEnv == <<>>
Environments == {NoEnv, EnvBaseUrl}

\* Client.default_base_url: os.getenv("DARWIN_BASE_URL", default)
default_base_url(env) == IF env = NoEnv THEN DefaultBaseUrl ELSE env

\* Client.default_api_url: f"{base}/api/"
default_api_url(env) == default_base_url(env) \o <<"/","a","p","i","/">>

EpDatasetsSlash == <<"/","d","a","t","a","s","e","t","s","/">>
EpDatasets == <<"/","d","a","t","a","s","e","t","s">>
EpTokenInfo == <<"/","u","s","e","r","s","/","t","o","k","e","n","_","i","n","f","o">>
EpItem == <<"i","t","e","m","s","/","1">>
Endpoints == {EpDatasetsSlash, EpItem}

\* ------------------------------------------------------------ Config
HomeDatasetsDir == "~/.darwin/datasets"

\* Config.get("global/<key>")
ConfigGet(config, key) ==
    IF key \in DOMAIN config.global THEN config.global[key] ELSE None

\* Config.get_team(team): the stored settings of the team; a team without
\* stored settings has no api_key
ConfigGetTeam(config, team) ==
    IF team \in DOMAIN config.teams THEN config.teams[team]
    ELSE [datasets_dir |-> HomeDatasetsDir]

\* Config(path=None)
EmptyConfig == [teams |-> <<>>, global |-> <<>>]

\* Config.set_team(team, api_key, datasets_dir)
ConfigSetTeam(config, team, api_key, datasets_dir) ==
    [config EXCEPT !.teams =
        [t \in (DOMAIN config.teams) \cup {team} |->
            IF t = team THEN [api_key |-> api_key, datasets_dir |-> datasets_dir]
            ELSE config.teams[t]]]

\* Config.set_global(api_endpoint, base_url)
ConfigSetGlobal(config, api_endpoint, base_url) ==
    [config EXCEPT !.global =
        [k \in (DOMAIN config.global) \cup {"api_endpoint", "base_url"} |->
            IF k = "api_endpoint" THEN api_endpoint
            ELSE IF k = "base_url" THEN base_url
            ELSE config.global[k]]]

\* dict.get(key): the value, or None
DictGet(d, key) == IF key \in DOMAIN d THEN d[key] ELSE None

\* the configuration file ~/.darwin/config.yaml of the model: teams acme and
\* gamma have an API key each, team beta has none
HomeConfigPath == "~/.darwin/config.yaml"
HomeConfig ==
    [teams |-> [acme |-> [api_key |-> "k1", datasets_dir |-> "/data/acme"],
                beta |-> [datasets_dir |-> "/data/beta"],
                gamma |-> [api_key |-> "k2", datasets_dir |-> "/data/gamma"]],
     global |-> [api_endpoint |-> default_api_url(NoEnv),
                 base_url |-> DefaultBaseUrl,
                 default_team |-> "acme"]]
ConfigPaths == {HomeConfigPath, "./missing.yaml"}

\* Path.exists and Config(path) on the file system of the model
PathExists(path) == path = HomeConfigPath
LoadConfig(path) == HomeConfig

ApiKeys == {"k1", "k2"}
\* team arguments: absent, or a team.  The home configuration has a key for
\* acme and gamma and none for beta; a configuration made from an API key
\* knows one team only
TeamArgs == {None, "acme", "beta", "gamma"}

\* ------------------------------------------------------------ Client
NoClient == [none |-> TRUE]

\* Client.__init__
ClientInit(config, default_team) ==
    [config |-> config,
     url |-> ConfigGet(config, "api_endpoint"),
     base_url |-> ConfigGet(config, "base_url"),
     default_team |-> Or(default_team, ConfigGet(config, "default_team"))]

\* _get_headers reading the default team's settings whatever team is asked for
GetHeaders_DefaultTeam(c, team) ==
    LET team_config == ConfigGetTeam(c.config, c.default_team)
        api_key == DictGet(team_config, "api_key")
        header == "Content-Type" :> "application/json"
    IN IF api_key # None
       THEN header @@ ("Authorization" :> ("ApiKey " \o api_key))
       ELSE header

\* Client._get_headers
GetHeaders(c, team) ==
    LET team_config == ConfigGetTeam(c.config, Or(team, c.default_team))
        api_key == DictGet(team_config, "api_key")
        header == "Content-Type" :> "application/json"
    IN IF api_key # None
       THEN header @@ ("Authorization" :> ("ApiKey " \o api_key))
       ELSE header

\* ------------------------------------------------------------ responses
\* The text of a response is either the serialisation of a JSON document
\* (kind "json") or text no JSON parser accepts (kind "text", the empty
\* body included).
JsonText(doc) == [kind |-> "json", doc |-> doc]
PlainText(s) == [kind |-> "text", s |-> s]

Response(status, text) == [status_code |-> status, text |-> text]
NoResponse == Response(0, PlainText(""))

\* requests.Response.json(): the document, or ValueError
ResponseJson(resp) ==
    IF resp.text.kind = "json" THEN Ok(resp.text.doc) ELSE Err("ValueError")

\* Client._decode_response
DecodeResponse(resp, debug) ==
    LET j == ResponseJson(resp) IN
    IF j.ok THEN j.val
    ELSE JObj([error |-> JStr("Response is not JSON encoded"),
               status_code |-> JNum(resp.status_code),
               text |-> JStr(resp.text.s)])

\* ------------------------------------------------------------ server
Statuses == {200, 400, 401, 404, 429}

StorageError == JObj([errors |-> JObj([code |-> JStr("INSUFFICIENT_REMAINING_STORAGE")])])
OtherError == JObj([errors |-> JObj([code |-> JStr("RATE_LIMITED")])])
NoCodeError == JObj([errors |-> JObj([name |-> JList(<<JStr("has already been taken")>>)])])
TextError == JObj([errors |-> JStr("too many requests")])

\* bodies any endpoint may answer with: text that is not JSON, the empty
\* body, and JSON documents of the shapes the client looks into
GenericBodies ==
    {PlainText("<html>"), PlainText("")}
    \cup {JsonText(d) : d \in {EmptyObj, JNull, StorageError, OtherError,
                               NoCodeError, TextError}}

\* a dataset summary object {id, name, slug, num_images, progress}
Dataset(id, name, slug) ==
    JObj([id |-> JNum(id), name |-> JStr(name), slug |-> JStr(slug),
          num_images |-> JNum(10), progress |-> JNum(0)])

Cats1 == Dataset(1, "Cats", "cats")
Cats2 == Dataset(2, "More cats", "cats")
Dogs3 == Dataset(3, "Dogs", "dogs")
\* a summary object without most of its keys
Partial == JObj([slug |-> JStr("cats")])

SeqsUpTo(S, n) == UNION {[1..k -> S] : k \in 0..n}

\* answers of GET /datasets/
ListingBodies ==
    {JsonText(JList(l)) : l \in SeqsUpTo({Cats1, Cats2, Dogs3}, MaxListing)}
    \cup {JsonText(JList(<<Cats1, Partial>>))}

\* answers of POST /datasets
DatasetBodies == {JsonText(Cats1), JsonText(Partial)}

Team(id, slug) == JObj([id |-> JNum(id), slug |-> JStr(slug)])

TokenInfo(id, teams) ==
    JObj([selected_team |-> JObj([id |-> JNum(id)]), teams |-> JList(teams)])

\* answers of GET /users/token_info
TokenInfoBodies ==
    {JsonText(d) : d \in
        {TokenInfo(7, <<Team(7, "acme")>>),
         TokenInfo(8, <<Team(7, "acme"), Team(8, "beta")>>),
         TokenInfo(7, <<Team(8, "beta"), Team(7, "acme"), Team(7, "beta")>>),
         TokenInfo(9, <<Team(7, "acme")>>),
         TokenInfo(7, <<>>),
         TokenInfo(7, <<JObj([id |-> JNum(7)])>>)}}

Responses(bodies) == {Response(s, b) : s \in Statuses, b \in bodies}

\* ------------------------------------------------------------ requests
Request(verb, url, headers, json) ==
    [verb |-> verb, url |-> url, headers |-> headers, json |-> json]
NoRequest == [none |-> TRUE]

\* requests.get(urljoin(self.url, endpoint), headers=self._get_headers(team))
GetRequest(c, endpoint, team) ==
    Request("GET", urljoin(<<c.url, endpoint>>), GetHeaders(c, team), JNull)

\* get raising NotFound with the endpoint joined to base_url
GetOutcome_BaseUrl(c, endpoint, team, raw, debug, resp) ==
    IF resp.status_code = 401 THEN Raise("Unauthorized", NoArg)
    ELSE IF resp.status_code = 404
    THEN Raise("NotFound", [url |-> urljoin(<<c.base_url, endpoint>>)])
    ELSE IF raw THEN Return(resp)
    ELSE Return(DecodeResponse(resp, debug))

\* Client.get, after the response has arrived
GetOutcome(c, endpoint, team, raw, debug, resp) ==
    IF resp.status_code = 401 THEN Raise("Unauthorized", NoArg)
    ELSE IF resp.status_code = 404
    THEN Raise("NotFound", [url |-> urljoin(<<c.url, endpoint>>)])
    ELSE IF raw THEN Return(resp)
    ELSE Return(DecodeResponse(resp, debug))

\* Client.put, after the response has arrived
PutOutcome(c, endpoint, payload, team, debug, resp) ==
    IF resp.status_code = 401 THEN Raise("Unauthorized", NoArg)
    ELSE IF resp.status_code = 429
    THEN LET j == ResponseJson(resp)
             error_code == GetItem2(j.val, "errors", "code")
         IN IF ~j.ok THEN Raise(j.err, NoArg)
            ELSE IF ~error_code.ok THEN Raise(error_code.err, NoArg)
            ELSE IF error_code.val = JStr("INSUFFICIENT_REMAINING_STORAGE")
            THEN Raise("InsufficientStorage", NoArg)
            ELSE Return(DecodeResponse(resp, debug))
    ELSE Return(DecodeResponse(resp, debug))

\* ------------------------------------------------------------ handlers
\* darwin.validators: the two handlers create_dataset installs, and a
\* handler of a caller that never raises
HandlerNames == {"name_taken", "validation_error", "log_only"}

\* the error the handler raises when called with (code, body), or None
HandlerError(h, code, body) ==
    CASE h = "name_taken" /\ code = 400 -> "NameTaken"
      [] h = "validation_error" /\ code \in {400, 429} -> "ValidationError"
      [] OTHER -> None

\* error_handlers=None
NoneList == <<None>>
HandlerLists == SeqsUpTo(HandlerNames, MaxHandlers) \cup {NoneList}

\* the loop `for error_handler in error_handlers: error_handler(code, body)`:
\* the calls made, and the error that ended the loop (None if it ran through)
RECURSIVE RunHandlers(_, _, _)
RunHandlers(hs, code, body) ==
    IF hs = <<>> THEN [invoked |-> <<>>, error |-> None]
    ELSE LET this == [handler |-> Head(hs), code |-> code, body |-> body]
             e == HandlerError(Head(hs), code, body)
         IN IF e # None THEN [invoked |-> <<this>>, error |-> e]
            ELSE LET rest == RunHandlers(Tail(hs), code, body)
                 IN [invoked |-> <<this>> \o rest.invoked, error |-> rest.error]

\* post without its check for 401: the status is handled as any other non-200
PostRun_No401(c, endpoint, payload, team, error_handlers, debug, resp) ==
    LET handlers == IF error_handlers = NoneList THEN <<>> ELSE error_handlers
        j == ResponseJson(resp)
        run == RunHandlers(handlers, resp.status_code, j.val)
    IN IF resp.status_code # 200
       THEN IF handlers # <<>> /\ ~j.ok
            THEN [outcome |-> Raise(j.err, NoArg), invoked |-> <<>>]
            ELSE IF handlers # <<>> /\ run.error # None
            THEN [outcome |-> Raise(run.error, [body |-> j.val]),
                  invoked |-> run.invoked]
            ELSE IF debug /\ ~j.ok
            THEN [outcome |-> Raise(j.err, NoArg), invoked |-> <<>>]
            ELSE [outcome |-> Return(DecodeResponse(resp, debug)),
                  invoked |-> IF handlers # <<>> THEN run.invoked ELSE <<>>]
       ELSE [outcome |-> Return(DecodeResponse(resp, debug)), invoked |-> <<>>]

\* Client.post, after the response has arrived: how the call ends, and the
\* handler calls it made
PostRun(c, endpoint, payload, team, error_handlers, debug, resp) ==
    LET handlers == IF error_handlers = NoneList THEN <<>> ELSE error_handlers
        j == ResponseJson(resp)
        run == RunHandlers(handlers, resp.status_code, j.val)
    IN IF resp.status_code = 401
       THEN [outcome |-> Raise("Unauthorized", NoArg), invoked |-> <<>>]
       ELSE IF resp.status_code # 200
       THEN IF handlers # <<>> /\ ~j.ok
            THEN [outcome |-> Raise(j.err, NoArg), invoked |-> <<>>]
            ELSE IF handlers # <<>> /\ run.error # None
            THEN [outcome |-> Raise(run.error, [body |-> j.val]), invoked |-> run.invoked]
            ELSE IF debug /\ ~j.ok
            THEN [outcome |-> Raise(j.err, NoArg), invoked |-> <<>>]
            ELSE [outcome |-> Return(DecodeResponse(resp, debug)),
                  invoked |-> IF handlers # <<>> THEN run.invoked ELSE <<>>]
       ELSE [outcome |-> Return(DecodeResponse(resp, debug)), invoked |-> <<>>]

\* the payload post sends: {} when none is given
PostPayload(payload) == IF payload = JNull THEN EmptyObj ELSE payload

\* ------------------------------------------------------------ datasets
\* darwin.dataset.RemoteDataset(...)
RemoteDataset(name, slug, team, dataset_id, image_count, progress, c) ==
    [name |-> name, slug |-> slug, team |-> team, dataset_id |-> dataset_id,
     image_count |-> image_count, progress |-> progress, client |-> c]

DatasetKeys == {"name", "slug", "id", "num_images", "progress"}

\* the error of reading the keys of a summary object, or None: a value that
\* is no dict fails on the first subscript, a dict on the first absent key
ItemError(v, keys) ==
    IF ~IsObj(v) THEN "TypeError"
    ELSE IF \E k \in keys : k \notin DOMAIN v.obj THEN "KeyError"
    ELSE None

\* the body of the loop of list_remote_datasets, item by item
RECURSIVE BuildDatasets(_, _, _)
BuildDatasets(c, team, items) ==
    IF items = <<>> THEN Ok(<<>>)
    ELSE LET d == Head(items)
             e == ItemError(d, DatasetKeys)
             rest == BuildDatasets(c, team, Tail(items))
         IN IF e # None THEN Err(e)
            ELSE IF ~rest.ok THEN rest
            ELSE Ok(<<RemoteDataset(d.obj["name"], d.obj["slug"],
                                    Or(team, c.default_team), d.obj["id"],
                                    d.obj["num_images"], d.obj["progress"], c)>>
                    \o rest.val)

\* Client.list_remote_datasets, the generator run to its end
ListRemoteDatasets(c, team, resp) ==
    LET g == GetOutcome(c, EpDatasetsSlash, team, FALSE, FALSE, resp)
        it == Iterate(g.value)
        built == BuildDatasets(c, team, it.val)
    IN IF ~Returned(g) THEN g
       ELSE IF ~it.ok THEN Raise(it.err, NoArg)
       ELSE IF ~built.ok THEN Raise(built.err, NoArg)
       ELSE Return(built.val)

\* dataset identifiers: a string is the sequence of its slugs and separators
DatasetIdentifier(team_slug, dataset_slug, version) ==
    [type |-> "DatasetIdentifier", team_slug |-> team_slug,
     dataset_slug |-> dataset_slug, version |-> version]
IdString(tokens) == [type |-> "str", s |-> tokens]

\* DatasetIdentifier.parse("team/slug:version"), team and version optional
ParseIdentifier(s) ==
    LET hasTeam == Len(s) >= 2 /\ s[2] = "/"
        rest == IF hasTeam THEN SubSeq(s, 3, Len(s)) ELSE s
        hasVersion == Len(rest) >= 3 /\ rest[2] = ":"
    IN DatasetIdentifier(IF hasTeam THEN s[1] ELSE None, rest[1],
                         IF hasVersion THEN rest[3] ELSE None)

IdentifierArgs ==
    {IdString(<<"acme", "/", "cats">>), IdString(<<"cats">>),
     IdString(<<"beta", "/", "dogs", ":", "v1">>), IdString(<<"birds">>),
     DatasetIdentifier("acme", "dogs", None),
     DatasetIdentifier(None, "cats", "v1"),
     DatasetIdentifier("beta", "birds", None)}

\* get_remote_dataset: the identifier after parsing and team defaulting
ResolveIdentifier(c, dataset_identifier) ==
    LET parsed == IF dataset_identifier.type = "str"
                  THEN ParseIdentifier(dataset_identifier.s)
                  ELSE dataset_identifier
    IN IF ~Truthy(parsed.team_slug)
       THEN [parsed EXCEPT !.team_slug = c.default_team]
       ELSE parsed

\* the Python comparison dataset.slug == dataset_slug
SlugMatches(d, dataset_slug) == IsStr(d.slug) /\ d.slug.str = dataset_slug

\* get_remote_dataset returning the last match
PickMatch_Last(matching_datasets) == matching_datasets[Len(matching_datasets)]

\* the element get_remote_dataset returns from the list of matches
PickMatch(matching_datasets) == matching_datasets[1]

\* Client.get_remote_dataset, after the response has arrived
GetRemoteDataset(c, dataset_identifier, resp) ==
    LET id == ResolveIdentifier(c, dataset_identifier)
        listed == ListRemoteDatasets(c, id.team_slug, resp)
        matching_datasets ==
            SelectSeq(listed.value, LAMBDA d : SlugMatches(d, id.dataset_slug))
    IN IF ~Returned(listed) THEN listed
       ELSE IF matching_datasets = <<>> THEN Raise("NotFound", [identifier |-> id])
       ELSE Return(PickMatch(matching_datasets))

CreateHandlers == <<"name_taken", "validation_error">>
DatasetNames == {"Cats"}

\* Client.create_dataset, after the response has arrived
CreateDataset(c, name, team, resp) ==
    LET p == PostRun(c, EpDatasets, JObj([name |-> JStr(name)]), team,
                     CreateHandlers, FALSE, resp)
        dataset == p.outcome.value
        e == ItemError(dataset, DatasetKeys)
    IN IF ~Returned(p.outcome) THEN p
       ELSE IF e # None THEN [p EXCEPT !.outcome = Raise(e, NoArg)]
       ELSE [p EXCEPT !.outcome =
                Return(RemoteDataset(dataset.obj["name"], dataset.obj["slug"],
                                     Or(team, c.default_team), dataset.obj["id"],
                                     dataset.obj["num_images"],
                                     dataset.obj["progress"], c))]

\* ------------------------------------------------------------ factories
TeamSlugArgs == {None, "beta"}

\* Client.from_config
FromConfigOutcome(config_path, team_slug) ==
    IF ~PathExists(config_path) THEN Raise("MissingConfig", NoArg)
    ELSE Return(ClientInit(LoadConfig(config_path), team_slug))

\* a JSON string or null as the Python value
FromJson(v) == IF IsStr(v) THEN v.str ELSE None

\* [team["slug"] for team in teams if team["id"] == team_id]
RECURSIVE MatchingSlugs(_, _)
MatchingSlugs(teams, team_id) ==
    IF teams = <<>> THEN Ok(<<>>)
    ELSE LET id == GetItem(Head(teams), "id")
             slug == GetItem(Head(teams), "slug")
             rest == MatchingSlugs(Tail(teams), team_id)
         IN IF ~id.ok THEN id
            ELSE IF id.val = team_id /\ ~slug.ok THEN slug
            ELSE IF ~rest.ok THEN rest
            ELSE IF id.val = team_id THEN Ok(<<slug.val>> \o rest.val)
            ELSE rest

\* from_api_key taking the last matching slug
PickTeam_Last(slugs) == slugs[Len(slugs)]

\* the element from_api_key takes from the list of matching slugs
PickTeam(slugs) == slugs[1]

DatasetsDirArgs == {None, "/data"}

\* the headers from_api_key sends
ApiKeyHeaders(api_key) ==
    ("Content-Type" :> "application/json")
    @@ ("Authorization" :> ("ApiKey " \o api_key))

\* the configuration from_api_key builds for the team
ApiKeyConfig(team, api_key, datasets_dir, env) ==
    ConfigSetGlobal(
        ConfigSetTeam(EmptyConfig, team, api_key,
                      IF datasets_dir = None THEN HomeDatasetsDir ELSE datasets_dir),
        default_api_url(env), default_base_url(env))

\* Client.from_api_key, after the response has arrived
FromApiKeyOutcome(api_key, datasets_dir, env, resp) ==
    LET data == ResponseJson(resp)
        team_id == GetItem2(data.val, "selected_team", "id")
        teams == GetItem(data.val, "teams")
        it == Iterate(teams.val)
        slugs == MatchingSlugs(it.val, team_id.val)
        team == FromJson(PickTeam(slugs.val))
    IN IF resp.status_code # 200 THEN Raise("InvalidLogin", NoArg)
       ELSE IF ~data.ok THEN Raise(data.err, NoArg)
       ELSE IF ~team_id.ok THEN Raise(team_id.err, NoArg)
       ELSE IF ~teams.ok THEN Raise(teams.err, NoArg)
       ELSE IF ~it.ok THEN Raise(it.err, NoArg)
       ELSE IF ~slugs.ok THEN Raise(slugs.err, NoArg)
       ELSE IF slugs.val = <<>> THEN Raise("IndexError", NoArg)
       ELSE Return(ClientInit(ApiKeyConfig(team, api_key, datasets_dir, env), team))

\* ------------------------------------------------------------ Release
ReleaseParams == {"dataset_slug", "team_slug", "version", "url", "export_date",
                  "image_count", "class_count", "available", "latest"}

\* Release.__init__ called with keyword arguments: every parameter is
\* required, a call that leaves one out is a TypeError
ReleaseInit(kwargs) ==
    IF DOMAIN kwargs # ReleaseParams THEN Raise("TypeError", NoArg)
    ELSE Return(kwargs)

WellFormedDates == {"2020-01-01T00:00:00+0000"}

\* datetime.datetime.strptime(v, "%Y-%m-%dT%H:%M:%S%z")
StrpTime(v) ==
    IF ~IsStr(v) THEN Err("TypeError")
    ELSE IF v.str \notin WellFormedDates THEN Err("ValueError")
    ELSE Ok([datetime |-> v.str])

\* Python len(v)
PyLen(v) ==
    CASE IsList(v) -> Ok(JNum(Len(v.list)))
      [] IsObj(v) -> Ok(JNum(Cardinality(DOMAIN v.obj)))
      [] OTHER -> Err("TypeError")

\* the call parse_json makes when download_url is null
UnavailableArgs(dataset_slug, team_slug, version, export_date) ==
    [dataset_slug |-> dataset_slug, team_slug |-> team_slug,
     version |-> version, export_date |-> export_date,
     available |-> FALSE, image_count |-> JNull, class_count |-> JNull,
     latest |-> JBool(FALSE)]

\* the call parse_json makes when download_url is not null
AvailableArgs(dataset_slug, team_slug, version, image_count, class_count, export_date, url, latest) ==
    [dataset_slug |-> dataset_slug, team_slug |-> team_slug,
     version |-> version, image_count |-> image_count,
     class_count |-> class_count, export_date |-> export_date, url |-> url,
     available |-> TRUE, latest |-> latest]

\* Release.parse_json
ParseJson(dataset_slug, team_slug, payload) ==
    LET inserted_at == GetItem(payload, "inserted_at")
        export_date == StrpTime(inserted_at.val)
        download_url == GetItem(payload, "download_url")
        version == GetItem(payload, "version")
        name == GetItem(payload, "name")
        num_images == GetItem2(payload, "metadata", "num_images")
        classes == GetItem2(payload, "metadata", "annotation_classes")
        class_count == PyLen(classes.val)
        latest == GetItem(payload, "latest")
    IN IF ~inserted_at.ok THEN Raise(inserted_at.err, NoArg)
       ELSE IF ~export_date.ok THEN Raise(export_date.err, NoArg)
       ELSE IF ~download_url.ok THEN Raise(download_url.err, NoArg)
       ELSE IF download_url.val = JNull
       THEN IF ~version.ok THEN Raise(version.err, NoArg)
            ELSE ReleaseInit(UnavailableArgs(dataset_slug, team_slug,
                                             version.val, export_date.val))
       ELSE IF ~name.ok THEN Raise(name.err, NoArg)
       ELSE IF ~num_images.ok THEN Raise(num_images.err, NoArg)
       ELSE IF ~classes.ok THEN Raise(classes.err, NoArg)
       ELSE IF ~class_count.ok THEN Raise(class_count.err, NoArg)
       ELSE IF ~latest.ok THEN Raise(latest.err, NoArg)
       ELSE ReleaseInit(AvailableArgs(dataset_slug, team_slug, name.val,
                                      num_images.val, class_count.val,
                                      export_date.val, download_url.val,
                                      latest.val))

GoodDate == JStr("2020-01-01T00:00:00+0000")
Metadata(n, classes) ==
    JObj([num_images |-> JNum(n), annotation_classes |-> JList(classes)])

\* release payloads {inserted_at, download_url, version?, name?, metadata?, latest}
ReleasePayloads ==
    {JObj([inserted_at |-> GoodDate, download_url |-> JNull,
           version |-> JStr("1.0"), latest |-> JBool(FALSE)]),
     JObj([inserted_at |-> GoodDate, download_url |-> JNull,
           version |-> JStr("1.1"), latest |-> JBool(TRUE),
           metadata |-> Metadata(4, <<JStr("a")>>)]),
     JObj([inserted_at |-> GoodDate, download_url |-> JStr("http://x"),
           name |-> JStr("v2"), latest |-> JBool(TRUE),
           metadata |-> Metadata(10, <<JStr("a"), JStr("b"), JStr("c")>>)]),
     JObj([inserted_at |-> GoodDate, download_url |-> JStr("http://y"),
           name |-> JStr("v3"), latest |-> JBool(FALSE),
           metadata |-> Metadata(0, <<>>)]),
     JObj([inserted_at |-> GoodDate, download_url |-> JStr("http://x"),
           name |-> JStr("v2"), latest |-> JBool(TRUE)]),
     JObj([inserted_at |-> JStr("yesterday"), download_url |-> JNull,
           version |-> JStr("1.0"), latest |-> JBool(FALSE)]),
     JObj([inserted_at |-> GoodDate, download_url |-> JNull,
           latest |-> JBool(FALSE)]),
     EmptyObj}

DatasetSlugs == {"cats", "dogs"}
TeamSlugs == {"acme", "beta"}

\* ------------------------------------------------------------ the machine
NoCall == [op |-> "none"]
NoOutcome == [kind |-> "none"]

Init ==
    /\ client = NoClient
    /\ call = NoCall
    /\ request = NoRequest
    /\ response = NoResponse
    /\ invoked = <<>>
    /\ outcome = NoOutcome

Idle == call = NoCall
Ready == Idle /\ client # NoClient

\* Client.from_config(config_path, team_slug)
FromConfig ==
    /\ Idle
    /\ \E config_path \in ConfigPaths, team_slug \in TeamSlugArgs :
        LET o == FromConfigOutcome(config_path, team_slug) IN
        /\ call' = [op |-> "from_config", config_path |-> config_path,
                    team_slug |-> team_slug]
        /\ outcome' = o
        /\ client' = IF Returned(o) THEN o.value ELSE client
        /\ UNCHANGED <<request, response, invoked>>

\* Client.local(team_slug)
Local ==
    /\ Idle
    /\ \E team_slug \in TeamSlugArgs :
        LET o == FromConfigOutcome(HomeConfigPath, team_slug) IN
        /\ call' = [op |-> "local", team_slug |-> team_slug]
        /\ outcome' = o
        /\ client' = IF Returned(o) THEN o.value ELSE client
        /\ UNCHANGED <<request, response, invoked>>

\* Client.from_api_key(api_key, datasets_dir)
FromApiKey ==
    /\ Idle
    /\ \E api_key \in ApiKeys, datasets_dir \in DatasetsDirArgs,
       env \in Environments, resp \in Responses(GenericBodies \cup TokenInfoBodies) :
        LET o == FromApiKeyOutcome(api_key, datasets_dir, env, resp) IN
        /\ call' = [op |-> "from_api_key", api_key |-> api_key,
                    datasets_dir |-> datasets_dir, env |-> env]
        /\ request' = Request("GET", urljoin(<<default_api_url(env), EpTokenInfo>>),
                              ApiKeyHeaders(api_key), JNull)
        /\ response' = resp
        /\ outcome' = o
        /\ client' = IF Returned(o) THEN o.value ELSE client
        /\ UNCHANGED invoked

\* Client.get(endpoint, team, raw, debug)
Get ==
    /\ Ready
    /\ \E endpoint \in Endpoints, team \in TeamArgs, raw \in BOOLEAN,
       debug \in BOOLEAN, resp \in Responses(GenericBodies \cup ListingBodies) :
        /\ call' = [op |-> "get", endpoint |-> endpoint, team |-> team,
                    raw |-> raw, debug |-> debug]
        /\ request' = GetRequest(client, endpoint, team)
        /\ response' = resp
        /\ outcome' = GetOutcome(client, endpoint, team, raw, debug, resp)
        /\ UNCHANGED <<client, invoked>>

PutPayloads == {JObj([name |-> JStr("Cats")])}

\* Client.put(endpoint, payload, team, debug)
Put ==
    /\ Ready
    /\ \E endpoint \in Endpoints, payload \in PutPayloads, team \in TeamArgs,
       debug \in BOOLEAN, resp \in Responses(GenericBodies \cup DatasetBodies) :
        /\ call' = [op |-> "put", endpoint |-> endpoint, payload |-> payload,
                    team |-> team, debug |-> debug]
        /\ request' = Request("PUT", urljoin(<<client.url, endpoint>>),
                              GetHeaders(client, team), payload)
        /\ response' = resp
        /\ outcome' = PutOutcome(client, endpoint, payload, team, debug, resp)
        /\ UNCHANGED <<client, invoked>>

PostPayloads == {JNull, JObj([name |-> JStr("Cats")])}

\* Client.post(endpoint, payload, team, error_handlers, debug)
Post ==
    /\ Ready
    /\ \E endpoint \in {EpDatasets}, payload \in PostPayloads, team \in TeamArgs,
       error_handlers \in HandlerLists, debug \in BOOLEAN,
       resp \in Responses(GenericBodies \cup DatasetBodies) :
        LET p == PostRun(client, endpoint, payload, team, error_handlers,
                         debug, resp) IN
        /\ call' = [op |-> "post", endpoint |-> endpoint, payload |-> payload,
                    team |-> team, error_handlers |-> error_handlers,
                    debug |-> debug]
        /\ request' = Request("POST", urljoin(<<client.url, endpoint>>),
                              GetHeaders(client, team), PostPayload(payload))
        /\ response' = resp
        /\ outcome' = p.outcome
        /\ invoked' = p.invoked
        /\ UNCHANGED client

\* list(Client.list_remote_datasets(team))
ListDatasets ==
    /\ Ready
    /\ \E team \in TeamArgs, resp \in Responses(GenericBodies \cup ListingBodies) :
        /\ call' = [op |-> "list_remote_datasets", team |-> team]
        /\ request' = GetRequest(client, EpDatasetsSlash, team)
        /\ response' = resp
        /\ outcome' = ListRemoteDatasets(client, team, resp)
        /\ UNCHANGED <<client, invoked>>

\* Client.get_remote_dataset(dataset_identifier)
GetDataset ==
    /\ Ready
    /\ \E dataset_identifier \in IdentifierArgs,
       resp \in Responses(GenericBodies \cup ListingBodies) :
        /\ call' = [op |-> "get_remote_dataset",
                    dataset_identifier |-> dataset_identifier]
        /\ request' = GetRequest(client, EpDatasetsSlash,
                         ResolveIdentifier(client, dataset_identifier).team_slug)
        /\ response' = resp
        /\ outcome' = GetRemoteDataset(client, dataset_identifier, resp)
        /\ UNCHANGED <<client, invoked>>

\* Client.create_dataset(name, team)
Create ==
    /\ Ready
    /\ \E name \in DatasetNames, team \in TeamArgs,
       resp \in Responses(GenericBodies \cup DatasetBodies) :
        LET p == CreateDataset(client, name, team, resp) IN
        /\ call' = [op |-> "create_dataset", name |-> name, team |-> team]
        /\ request' = Request("POST", urljoin(<<client.url, EpDatasets>>),
                              GetHeaders(client, team),
                              JObj([name |-> JStr(name)]))
        /\ response' = resp
        /\ outcome' = p.outcome
        /\ invoked' = p.invoked
        /\ UNCHANGED client

\* Release.parse_json(dataset_slug, team_slug, payload)
Parse ==
    /\ Idle
    /\ \E dataset_slug \in DatasetSlugs, team_slug \in TeamSlugs,
       payload \in ReleasePayloads :
        /\ call' = [op |-> "parse_json", dataset_slug |-> dataset_slug,
                    team_slug |-> team_slug, payload |-> payload]
        /\ outcome' = ParseJson(dataset_slug, team_slug, payload)
        /\ UNCHANGED <<client, request, response, invoked>>

\* the caller has seen how the call ended and goes on to its next call
CallerContinues ==
    /\ ~Idle
    /\ call' = NoCall
    /\ request' = NoRequest
    /\ response' = NoResponse
    /\ invoked' = <<>>
    /\ outcome' = NoOutcome
    /\ UNCHANGED client

Next ==
    \/ FromConfig
    \/ Local
    \/ FromApiKey
    \/ Get
    \/ Put
    \/ Post
    \/ ListDatasets
    \/ GetDataset
    \/ Create
    \/ Parse
    \/ CallerContinues

Spec == Init /\ [][Next]_vars

\* ------------------------------------------------------------ properties
MediatorOps == {"get", "put", "post"}

ClientOps == {"get", "put", "post", "list_remote_datasets", "get_remote_dataset",
              "create_dataset", "from_config", "from_api_key"}

NamedErrors == {"Unauthorized", "NotFound", "InsufficientStorage",
                "InvalidLogin", "MissingConfig"}
BusinessErrors == {"NameTaken", "ValidationError"}

\* the mapping the specification promises for a body that is not JSON
NotJsonMapping ==
    JObj([error |-> JStr("Response is not JSON encoded"),
          status_code |-> JNum(response.status_code),
          text |-> JStr(response.text.s)])

\* the decoded body of the response of the state
DecodedBody ==
    IF response.text.kind = "json" THEN response.text.doc ELSE NotJsonMapping

\* C1: a get, put or post whose response has status 401 raises Unauthorized
\* and returns nothing, whatever the body, the flags and the handlers are.
C1_Unauthorized ==
    (call.op \in MediatorOps /\ response.status_code = 401)
        => Raised(outcome, "Unauthorized")

\* a post with handlers and a JSON body that was answered 401
C1_Witness ==
    /\ call.op = "post"
    /\ response.status_code = 401
    /\ response.text.kind = "json"
    /\ call.error_handlers = <<"validation_error", "name_taken">>
    /\ call.debug
    /\ Raised(outcome, "Unauthorized")
    /\ invoked = <<>>

\* C2: a get (not raw), put or post whose response body is not JSON, with a
\* status other than 401 (and other than 404 for get), never raises: it
\* returns {"error": "Response is not JSON encoded", "status_code", "text"}.
C2_Claim ==
    (/\ call.op \in MediatorOps
     /\ response.text.kind = "text"
     /\ response.status_code # 401
     /\ ~(call.op = "get" /\ (response.status_code = 404 \/ call.raw)))
        => (Returned(outcome) /\ outcome.value = NotJsonMapping)

\* C3: parse_json of a payload whose download_url is null returns a Release
\* with available=False, the payload's version, no url, no counts and
\* latest=False; of a payload whose download_url is not null, a Release with
\* available=True, url, the payload's name as version, the counts of the
\* metadata and latest passed through; an unavailable Release has no url and
\* no counts.
C3_Claim ==
    call.op = "parse_json" =>
        LET p == call.payload.obj
            r == outcome.value
            dated == "inserted_at" \in DOMAIN p /\ p.inserted_at = GoodDate
            unavailable == /\ dated
                           /\ {"download_url", "version"} \subseteq DOMAIN p
                           /\ p.download_url = JNull
            available == /\ dated
                         /\ {"download_url", "name", "metadata", "latest"}
                                \subseteq DOMAIN p
                         /\ p.download_url # JNull
            noUrl == "url" \notin DOMAIN r \/ r.url = JNull
        IN /\ unavailable =>
                /\ Returned(outcome)
                /\ r.available = FALSE
                /\ r.version = p.version
                /\ noUrl
                /\ r.image_count = JNull
                /\ r.class_count = JNull
                /\ r.latest = JBool(FALSE)
           /\ available =>
                /\ Returned(outcome)
                /\ r.available = TRUE
                /\ r.url = p.download_url
                /\ r.version = p.name
                /\ r.image_count = p.metadata.obj.num_images
                /\ r.class_count = JNum(Len(p.metadata.obj.annotation_classes.list))
                /\ r.latest = p.latest
           /\ (Returned(outcome) /\ r.available = FALSE) =>
                (noUrl /\ r.image_count = JNull /\ r.class_count = JNull)

\* C4: an operation of the client that raises, raises Unauthorized, NotFound,
\* InsufficientStorage, InvalidLogin or MissingConfig, or the business error
\* of a handler given to post; no other kind of exception escapes.
C4_Claim ==
    (call.op \in ClientOps /\ outcome.kind = "raise")
        => outcome.error \in NamedErrors \cup BusinessErrors

\* the decoded body has errors.code = "INSUFFICIENT_REMAINING_STORAGE"
StorageCode ==
    /\ response.text.kind = "json"
    /\ IsObj(response.text.doc)
    /\ "errors" \in DOMAIN response.text.doc.obj
    /\ IsObj(response.text.doc.obj.errors)
    /\ "code" \in DOMAIN response.text.doc.obj.errors.obj
    /\ response.text.doc.obj.errors.obj.code = JStr("INSUFFICIENT_REMAINING_STORAGE")

\* C5: a put answered 429 raises InsufficientStorage exactly when the decoded
\* body's errors.code is "INSUFFICIENT_REMAINING_STORAGE"; with any other
\* body (another code, or no errors.code) it raises nothing and returns the
\* decoded body.  Stated for the bodies that are JSON.
C5_Claim ==
    (call.op = "put" /\ response.status_code = 429
        /\ response.text.kind = "json") =>
        IF StorageCode THEN Raised(outcome, "InsufficientStorage")
        ELSE Returned(outcome) /\ outcome.value = DecodedBody

\* the handlers of the post of the state
GivenHandlers ==
    IF call.error_handlers = NoneList THEN <<>> ELSE call.error_handlers

\* the position of the first handler that raises, 0 when none does
FirstRaiser ==
    LET raisers == {i \in 1..Len(GivenHandlers) :
                       HandlerError(GivenHandlers[i], response.status_code,
                                    DecodedBody) # None}
    IN IF raisers = {} THEN 0
       ELSE CHOOSE i \in raisers : \A k \in raisers : i <= k

\* C6: a post answered neither 200 nor 401 calls its handlers in list order,
\* each with (status code, decoded body), up to and including the first one
\* that raises, whose error it propagates; if none raises it returns the
\* decoded body.  Answered 200 or 401 it calls no handler.
C6_Claim ==
    call.op = "post" =>
        IF response.status_code \in {200, 401} THEN invoked = <<>>
        ELSE LET n == IF FirstRaiser = 0 THEN Len(GivenHandlers) ELSE FirstRaiser
             IN /\ Len(invoked) = n
                /\ \A i \in 1..n :
                      invoked[i] = [handler |-> GivenHandlers[i],
                                    code |-> response.status_code,
                                    body |-> DecodedBody]
                /\ IF FirstRaiser = 0
                   THEN Returned(outcome) /\ outcome.value = DecodedBody
                   ELSE Raised(outcome,
                               HandlerError(GivenHandlers[FirstRaiser],
                                            response.status_code, DecodedBody))

\* C7 as stated: a get answered 404 raises NotFound carrying the join of the
\* client's base_url with the endpoint.
C7_Claim ==
    (call.op = "get" /\ response.status_code = 404) =>
        /\ Raised(outcome, "NotFound")
        /\ outcome.arg.url = urljoin(<<client.base_url, call.endpoint>>)

\* C7 amended: a get answered 404, raw or not, raises NotFound carrying the
\* join of the client's API endpoint URL (self.url, the address the request
\* went to) with the endpoint.
C7_Amended ==
    (call.op = "get" /\ response.status_code = 404) =>
        /\ Raised(outcome, "NotFound")
        /\ outcome.arg.url = urljoin(<<client.url, call.endpoint>>)
        /\ outcome.arg.url = request.url

\* a raw get answered 404 whose NotFound does not carry the base_url join
C7_Witness ==
    /\ call.op = "get"
    /\ response.status_code = 404
    /\ call.raw
    /\ Raised(outcome, "NotFound")
    /\ outcome.arg.url # urljoin(<<client.base_url, call.endpoint>>)
    /\ client.base_url = EnvBaseUrl

\* the listing of the response of the state is a list of dataset summaries
GoodListing ==
    /\ response.status_code \notin {401, 404}
    /\ response.text.kind = "json"
    /\ IsList(response.text.doc)
    /\ \A i \in 1..Len(response.text.doc.list) :
          /\ IsObj(response.text.doc.list[i])
          /\ DatasetKeys \subseteq DOMAIN response.text.doc.list[i].obj

\* the identifier get_remote_dataset was called with, parsed
GivenIdentifier ==
    IF call.dataset_identifier.type = "str"
    THEN ParseIdentifier(call.dataset_identifier.s)
    ELSE call.dataset_identifier

\* its team, the client's default team when it has none
GivenTeam ==
    IF GivenIdentifier.team_slug = None THEN client.default_team
    ELSE GivenIdentifier.team_slug

\* the positions in the listing of the datasets with the identifier's slug
Matches ==
    {i \in 1..Len(response.text.doc.list) :
        response.text.doc.list[i].obj.slug = JStr(GivenIdentifier.dataset_slug)}

\* C8: get_remote_dataset on a successful listing raises NotFound carrying
\* the parsed identifier (with its team) when no listed dataset has the
\* slug, and otherwise returns the earliest listed dataset with the slug,
\* however many there are.
C8_FirstMatch ==
    (call.op = "get_remote_dataset" /\ GoodListing) =>
        IF Matches = {}
        THEN /\ Raised(outcome, "NotFound")
             /\ outcome.arg.identifier =
                    DatasetIdentifier(GivenTeam, GivenIdentifier.dataset_slug,
                                      GivenIdentifier.version)
        ELSE LET first == CHOOSE i \in Matches : \A k \in Matches : i <= k
                 d == response.text.doc.list[first].obj
             IN /\ Returned(outcome)
                /\ outcome.value.dataset_id = d.id
                /\ outcome.value.name = d.name
                /\ outcome.value.slug = d.slug
                /\ outcome.value.team = GivenTeam

\* two listed datasets have the slug, and the earlier one was returned
C8_Witness ==
    /\ call.op = "get_remote_dataset"
    /\ call.dataset_identifier = IdString(<<"cats">>)
    /\ response.status_code = 200
    /\ response.text = JsonText(JList(<<Cats2, Cats1>>))
    /\ Returned(outcome)
    /\ outcome.value.dataset_id = JNum(2)

\* the token-info body: {selected_team: {id}, teams: [{id, slug}, ...]} with
\* an entry for the selected team
GoodTokenInfo ==
    /\ response.text.kind = "json"
    /\ IsObj(response.text.doc)
    /\ {"selected_team", "teams"} \subseteq DOMAIN response.text.doc.obj
    /\ IsObj(response.text.doc.obj.selected_team)
    /\ "id" \in DOMAIN response.text.doc.obj.selected_team.obj
    /\ IsList(response.text.doc.obj.teams)
    /\ \A i \in 1..Len(response.text.doc.obj.teams.list) :
          LET e == response.text.doc.obj.teams.list[i] IN
          /\ IsObj(e)
          /\ "id" \in DOMAIN e.obj
          /\ e.obj.id = response.text.doc.obj.selected_team.obj.id
                => ("slug" \in DOMAIN e.obj /\ IsStr(e.obj.slug))
    /\ \E i \in 1..Len(response.text.doc.obj.teams.list) :
          response.text.doc.obj.teams.list[i].obj.id
              = response.text.doc.obj.selected_team.obj.id

\* the slug of the first entry of teams with the selected team's id
SelectedSlug ==
    LET teams == response.text.doc.obj.teams.list
        hits == {i \in 1..Len(teams) :
                    teams[i].obj.id = response.text.doc.obj.selected_team.obj.id}
        first == CHOOSE i \in hits : \A k \in hits : i <= k
    IN teams[first].obj.slug.str

\* C9: from_api_key raises InvalidLogin and returns no client when the
\* token-info status is not 200; when it is 200 the client it returns has as
\* default_team the slug of the entry of teams with the selected team's id,
\* its configuration holds the given API key for that team, and its requests
\* for the default team carry Authorization: ApiKey <key>.
C9_Bootstrap ==
    call.op = "from_api_key" =>
        /\ response.status_code # 200 => Raised(outcome, "InvalidLogin")
        /\ (response.status_code = 200 /\ GoodTokenInfo) =>
              /\ Returned(outcome)
              /\ client = outcome.value
              /\ client.default_team = SelectedSlug
              /\ SelectedSlug \in DOMAIN client.config.teams
              /\ "api_key" \in DOMAIN client.config.teams[SelectedSlug]
              /\ client.config.teams[SelectedSlug].api_key = call.api_key
              /\ "Authorization" \in DOMAIN GetHeaders(client, None)
              /\ GetHeaders(client, None)["Authorization"]
                    = "ApiKey " \o call.api_key

\* the selected team is listed twice and the client got the first entry's slug
C9_Witness ==
    /\ call.op = "from_api_key"
    /\ call.api_key = "k2"
    /\ response.status_code = 200
    /\ response.text
          = JsonText(TokenInfo(7, <<Team(8, "beta"), Team(7, "acme"), Team(7, "beta")>>))
    /\ Returned(outcome)
    /\ client.default_team = "acme"
    /\ client.config.teams["acme"].api_key = "k2"

\* the team the request of the state is for
RequestTeam == IF call.team \in {None, ""} THEN client.default_team ELSE call.team

\* the configuration stores an API key for that team
KeyStored ==
    /\ RequestTeam \in DOMAIN client.config.teams
    /\ "api_key" \in DOMAIN client.config.teams[RequestTeam]

\* C10: the request of a get, put or post always goes out (building the
\* headers never raises) with Content-Type: application/json, and with
\* Authorization: ApiKey <key> exactly when the configuration stores a key
\* for the team of the call (the default team when the call names none), the
\* key being that team's.
C10_Headers ==
    call.op \in MediatorOps =>
        /\ request # NoRequest
        /\ "Content-Type" \in DOMAIN request.headers
        /\ request.headers["Content-Type"] = "application/json"
        /\ ("Authorization" \in DOMAIN request.headers) <=> KeyStored
        /\ KeyStored =>
              request.headers["Authorization"]
                  = "ApiKey " \o client.config.teams[RequestTeam].api_key

\* a request for a team without a stored key, by a client whose default team
\* has one: it went out without Authorization and the call returned
C10_Witness ==
    /\ call.op = "put"
    /\ call.team = "beta"
    /\ client.default_team = "acme"
    /\ "api_key" \in DOMAIN client.config.teams["acme"]
    /\ ~KeyStored
    /\ "Authorization" \notin DOMAIN request.headers
    /\ Returned(outcome)

====
